---------------------------- MODULE Spec2Model ----------------------------
(***************************************************************************)
(* A model of the three independent utilities of the repository:           *)
(*   - debug-openwebui.sh   (src/debug-openwebui.sh, lines 1-62)           *)
(*   - run-bedrock.sh       (src/debug-openwebui.sh, lines 63-145)         *)
(*   - the Documents/General settings panel (General.svelte, lines 1-191)  *)
(* Each utility is started on its own; a behaviour of the model is one run *)
(* of one of them.  External commands (docker, docker-compose, curl) are   *)
(* inputs: every invocation draws its output and exit status from a small  *)
(* set, and is recorded in the command log.                                *)
(***************************************************************************)
EXTENDS Naturals, Sequences, FiniteSets

VARIABLES
    pc,          \* position of the running shell script ("idle" for the panel)
    stdout,      \* lines echoed by the script so far
    cmds,        \* external commands invoked so far: [cmd, rc, out]
    exit,        \* exit status of the script: NoValue while it runs, Some(n) after
    RAGConfig,   \* the panel's RAGConfig prop: NullConfig or a record of its fields
    config,      \* $config?.features?.enable_admin_export: "true", "false", "undefined"
    text,        \* the DOM value (a string) of each number input
    focus,       \* the number input holding the focus, or "none"
    textAtFocus, \* the DOM value the focused input had when it got the focus
    rendered,    \* the controls currently in the DOM
    lastEvent,   \* the last DOM event on the panel: [type, ctl]
    effects      \* the calls made by the handlers of the last event

shellVars == <<pc, stdout, cmds, exit>>
panelVars == <<RAGConfig, config, text, focus, textAtFocus, rendered, lastEvent, effects>>
vars == <<pc, stdout, cmds, exit,
          RAGConfig, config, text, focus, textAtFocus, rendered, lastEvent, effects>>

\* An absent value (the shell's "no exit status yet", JavaScript's null) is
\* the empty tuple, a present one the one-element tuple.
NoValue == <<>>
Some(v) == <<v>>

(***************************************************************************)
(* Shell helpers                                                           *)
(***************************************************************************)

\* grep's matching of one line: pat occurs somewhere in the line.
Contains(s, pat) ==
    \E i \in 1..(Len(s) + 1) :
        /\ i + Len(pat) - 1 <= Len(s)
        /\ SubSeq(s, i, i + Len(pat) - 1) = pat

\* `... | grep -q pat`: succeeds when some line of the output contains pat.
GrepQ(lines, pat) == \E l \in lines : Contains(l, pat)

\* The lines `docker images` and `docker ps` may print, and their listings.
DockerLines == {"bedrock-gateway", "ghcr.io/open-webui/open-webui", "postgres"}
Listings == SUBSET DockerLines

\* Exit statuses of an external command: success or failure.
ExitCodes == {0, 1}

Ran(c, rc, out) == [cmd |-> c, rc |-> rc, out |-> out]

Invoked(c) == \E i \in 1..Len(cmds) : cmds[i].cmd = c
IndexOf(c) == CHOOSE i \in 1..Len(cmds) : cmds[i].cmd = c
Printed(line) == \E i \in 1..Len(stdout) : stdout[i] = line

(***************************************************************************)
(* run-bedrock.sh                                                          *)
(***************************************************************************)

TestEnvFile == "[ -f .env.bedrock ]"
DockerInfo == "docker info"
DockerImages1 == "docker images | grep -q bedrock-gateway"
DockerImages2 == "docker images | grep -q open-webui"
ComposeDown == "docker-compose -f docker-compose.bedrock.yaml down"
ComposeUp == "docker-compose --env-file .env.bedrock -f docker-compose.bedrock.yaml up -d"
Sleep5 == "sleep 5"
DockerPs1 == "docker ps | grep -q bedrock-gateway"
DockerPs2 == "docker ps | grep -q open-webui"

ErrEnvFile == "Error: .env.bedrock file not found!"
ErrDocker == "Error: Docker is not running!"
ErrGatewayImage == "Error: bedrock-gateway image not found!"
ErrWebuiImage == "Error: open-webui image not found!"
MsgStopping == "Stopping any existing containers..."
MsgStarting == "Starting services..."
MsgWaiting == "Waiting for services to start..."
MsgStarted == "Services started successfully!"
ErrFailed == "Error: Services failed to start!"

\* Lines 72-83: if [ ! -f .env.bedrock ]; then echo ...; exit 1; fi
RB_CheckEnvFile ==
    /\ pc = "rb_env"
    /\ \E rc \in ExitCodes :
        /\ cmds' = Append(cmds, Ran(TestEnvFile, rc, {}))
        /\ IF rc # 0
           THEN /\ stdout' = Append(stdout, ErrEnvFile)
                /\ exit' = Some(1)
                /\ pc' = "done"
           ELSE /\ pc' = "rb_docker"
                /\ UNCHANGED <<stdout, exit>>
    /\ UNCHANGED panelVars

\* Lines 86-90: if ! docker info > /dev/null 2>&1; then echo ...; exit 1; fi
RB_CheckDocker ==
    /\ pc = "rb_docker"
    /\ \E rc \in ExitCodes :
        /\ cmds' = Append(cmds, Ran(DockerInfo, rc, {}))
        /\ IF rc # 0
           THEN /\ stdout' = Append(stdout, ErrDocker)
                /\ exit' = Some(1)
                /\ pc' = "done"
           ELSE /\ pc' = "rb_gateway_image"
                /\ UNCHANGED <<stdout, exit>>
    /\ UNCHANGED panelVars

\* Lines 93-101: if ! docker images | grep -q "bedrock-gateway"; then ...; exit 1; fi
RB_CheckGatewayImage ==
    /\ pc = "rb_gateway_image"
    /\ \E out \in Listings :
        /\ cmds' = Append(cmds, Ran(DockerImages1, IF GrepQ(out, "bedrock-gateway") THEN 0 ELSE 1, out))
        /\ IF ~GrepQ(out, "bedrock-gateway")
           THEN /\ stdout' = Append(stdout, ErrGatewayImage)
                /\ exit' = Some(1)
                /\ pc' = "done"
           ELSE /\ pc' = "rb_webui_image"
                /\ UNCHANGED <<stdout, exit>>
    /\ UNCHANGED panelVars

\* The open-webui image check with its `exit 1` left out.
RB_CheckWebuiImage_NoExit ==
    /\ pc = "rb_webui_image"
    /\ \E out \in Listings :
        /\ cmds' = Append(cmds, Ran(DockerImages2, IF GrepQ(out, "open-webui") THEN 0 ELSE 1, out))
        /\ stdout' = IF ~GrepQ(out, "open-webui") THEN Append(stdout, ErrWebuiImage) ELSE stdout
    /\ pc' = "rb_down"
    /\ UNCHANGED exit
    /\ UNCHANGED panelVars

\* Lines 104-111: if ! docker images | grep -q "open-webui"; then ...; exit 1; fi
RB_CheckWebuiImage ==
    /\ pc = "rb_webui_image"
    /\ \E out \in Listings :
        /\ cmds' = Append(cmds, Ran(DockerImages2, IF GrepQ(out, "open-webui") THEN 0 ELSE 1, out))
        /\ IF ~GrepQ(out, "open-webui")
           THEN /\ stdout' = Append(stdout, ErrWebuiImage)
                /\ exit' = Some(1)
                /\ pc' = "done"
           ELSE /\ pc' = "rb_down"
                /\ UNCHANGED <<stdout, exit>>
    /\ UNCHANGED panelVars

\* compose down whose failure ends the script (as under `set -e` without `|| true`).
RB_ComposeDown_Abort ==
    /\ pc = "rb_down"
    /\ \E rc \in ExitCodes :
        /\ cmds' = Append(cmds, Ran(ComposeDown, rc, {}))
        /\ IF rc # 0
           THEN exit' = Some(1) /\ pc' = "done"
           ELSE pc' = "rb_up" /\ UNCHANGED exit
    /\ stdout' = Append(stdout, MsgStopping)
    /\ UNCHANGED panelVars

\* Lines 114-115: echo ...; docker-compose -f ... down 2>/dev/null || true
RB_ComposeDown ==
    /\ pc = "rb_down"
    /\ \E rc \in ExitCodes :
        cmds' = Append(cmds, Ran(ComposeDown, rc, {}))
    /\ stdout' = Append(stdout, MsgStopping)
    /\ pc' = "rb_up"
    /\ UNCHANGED exit
    /\ UNCHANGED panelVars

\* Lines 118-119: echo ...; docker-compose --env-file .env.bedrock -f ... up -d
RB_ComposeUp ==
    /\ pc = "rb_up"
    /\ \E rc \in ExitCodes :
        cmds' = Append(cmds, Ran(ComposeUp, rc, {}))
    /\ stdout' = Append(stdout, MsgStarting)
    /\ pc' = "rb_sleep"
    /\ UNCHANGED exit
    /\ UNCHANGED panelVars

\* Lines 122-124: echo ...; sleep 5
RB_Wait ==
    /\ pc = "rb_sleep"
    /\ cmds' = Append(cmds, Ran(Sleep5, 0, {}))
    /\ stdout' = Append(stdout, MsgWaiting)
    /\ pc' = "rb_ps_gateway"
    /\ UNCHANGED exit
    /\ UNCHANGED panelVars

\* Lines 140-145: the else branch of the verification.
RB_Fail ==
    /\ stdout' = Append(stdout, ErrFailed)
    /\ exit' = Some(1)
    /\ pc' = "done"

\* The first docker ps joined to the second by || instead of &&.
RB_PsGateway_Or ==
    /\ pc = "rb_ps_gateway"
    /\ \E out \in Listings :
        /\ cmds' = Append(cmds, Ran(DockerPs1, IF GrepQ(out, "bedrock-gateway") THEN 0 ELSE 1, out))
        /\ IF GrepQ(out, "bedrock-gateway")
           THEN /\ stdout' = Append(stdout, MsgStarted)
                /\ exit' = Some(0)
                /\ pc' = "done"
           ELSE /\ pc' = "rb_ps_webui"
                /\ UNCHANGED <<stdout, exit>>
    /\ UNCHANGED panelVars

\* Line 127, left operand of &&: docker ps | grep -q "bedrock-gateway"
RB_PsGateway ==
    /\ pc = "rb_ps_gateway"
    /\ \E out \in Listings :
        /\ cmds' = Append(cmds, Ran(DockerPs1, IF GrepQ(out, "bedrock-gateway") THEN 0 ELSE 1, out))
        /\ IF GrepQ(out, "bedrock-gateway")
           THEN /\ pc' = "rb_ps_webui"
                /\ UNCHANGED <<stdout, exit>>
           ELSE RB_Fail
    /\ UNCHANGED panelVars

\* Line 127, right operand of &&, and lines 128-145.
RB_PsWebui ==
    /\ pc = "rb_ps_webui"
    /\ \E out \in Listings :
        /\ cmds' = Append(cmds, Ran(DockerPs2, IF GrepQ(out, "open-webui") THEN 0 ELSE 1, out))
        /\ IF GrepQ(out, "open-webui")
           THEN /\ stdout' = Append(stdout, MsgStarted)
                /\ exit' = Some(0)
                /\ pc' = "done"
           ELSE RB_Fail
    /\ UNCHANGED panelVars

NextRun ==
    \/ RB_CheckEnvFile
    \/ RB_CheckDocker
    \/ RB_CheckGatewayImage
    \/ RB_CheckWebuiImage
    \/ RB_ComposeDown
    \/ RB_ComposeUp
    \/ RB_Wait
    \/ RB_PsGateway
    \/ RB_PsWebui

(***************************************************************************)
(* debug-openwebui.sh                                                      *)
(***************************************************************************)

DbgPs == "docker ps | grep -q open-webui"
DbgPsFilter == "docker ps --filter name=open-webui"
DbgExecEnv == "docker exec open-webui env"
DbgLogs == "docker logs open-webui"
DbgExecLs == "docker exec open-webui ls -la /app/backend/data/"
DbgExecPing == "docker exec open-webui ping -c 1 host.docker.internal"
DbgCurl == "curl -s -o /dev/null -w %{http_code} http://localhost:3000"

\* What curl writes for %{http_code}: a three-digit status, 000 when no
\* response was received, or nothing when curl itself cannot be run.
HttpCodes == {"000", "200", "404", "500", "502"}
CurlOutputs == {{c} : c \in HttpCodes} \cup {{}}

MsgRunning == "Container is running"
MsgNotRunning == "Container is not running!"
MsgToStart == "To start the container, run: docker run -d -p 3000:8080 ... open-webui"
MsgNoData == "Cannot access data directory"
MsgReachYes == "Container can reach host: Yes"
MsgReachNo == "Container can reach host: No"
MsgPort500 == "Port 3000 is accessible: Returns 500"
MsgPortOK == "Port 3000 is accessible: OK"
MsgFixes == "Common fixes for 500 error:"

\* Lines 8-10 and 41-54: if docker ps | grep -q "open-webui"; then ... else ... fi
DBG_CheckRunning ==
    /\ pc = "dbg_ps"
    /\ \E out \in Listings :
        /\ cmds' = Append(cmds, Ran(DbgPs, IF GrepQ(out, "open-webui") THEN 0 ELSE 1, out))
        /\ IF GrepQ(out, "open-webui")
           THEN /\ stdout' = Append(stdout, MsgRunning)
                /\ pc' = "dbg_details"
           ELSE /\ stdout' = stdout \o <<MsgNotRunning, MsgToStart>>
                /\ pc' = "dbg_fixes"
    /\ UNCHANGED exit
    /\ UNCHANGED panelVars

\* A diagnostic command whose failure ends the script (as under `set -e`).
DBG_Run_ErrExit(at, c, next) ==
    /\ pc = at
    /\ \E rc \in ExitCodes :
        /\ cmds' = Append(cmds, Ran(c, rc, {}))
        /\ IF rc # 0
           THEN exit' = Some(rc) /\ pc' = "done"
           ELSE pc' = next /\ UNCHANGED exit
    /\ UNCHANGED stdout
    /\ UNCHANGED panelVars

\* A diagnostic command whose status is not looked at (lines 13-25).
DBG_Run(at, c, next) ==
    /\ pc = at
    /\ \E rc \in ExitCodes :
        cmds' = Append(cmds, Ran(c, rc, {}))
    /\ pc' = next
    /\ UNCHANGED <<stdout, exit>>
    /\ UNCHANGED panelVars

\* Lines 13-15: docker ps --filter "name=open-webui" --format ...
DBG_Details == DBG_Run("dbg_details", DbgPsFilter, "dbg_env")

\* Lines 18-20: docker exec open-webui env | grep -E ... | sort
DBG_Env == DBG_Run("dbg_env", DbgExecEnv, "dbg_logs")

\* Lines 23-25: docker logs open-webui 2>&1 | grep -i -E ... | tail -20
DBG_Logs == DBG_Run("dbg_logs", DbgLogs, "dbg_db")

\* Lines 28-30: docker exec open-webui ls -la ... 2>/dev/null || echo "Cannot access data directory"
DBG_Database ==
    /\ pc = "dbg_db"
    /\ \E rc \in ExitCodes :
        /\ cmds' = Append(cmds, Ran(DbgExecLs, rc, {}))
        /\ stdout' = IF rc # 0 THEN Append(stdout, MsgNoData) ELSE stdout
    /\ pc' = "dbg_ping"
    /\ UNCHANGED exit
    /\ UNCHANGED panelVars

\* Lines 33-35: docker exec open-webui ping ... &>/dev/null && echo Yes || echo No
DBG_Ping ==
    /\ pc = "dbg_ping"
    /\ \E rc \in ExitCodes :
        /\ cmds' = Append(cmds, Ran(DbgExecPing, rc, {}))
        /\ stdout' = Append(stdout, IF rc = 0 THEN MsgReachYes ELSE MsgReachNo)
    /\ pc' = "dbg_port"
    /\ UNCHANGED exit
    /\ UNCHANGED panelVars

\* A port check that takes only a 2xx status for OK.
PortVerdict_Only2xx(out) ==
    IF \E l \in out : Len(l) = 3 /\ SubSeq(l, 1, 1) = "2" THEN MsgPortOK ELSE MsgPort500

\* Line 39: ... | grep -q "500" && echo "Returns 500" || echo "OK"
PortVerdict(out) == IF GrepQ(out, "500") THEN MsgPort500 ELSE MsgPortOK

\* Lines 38-39: curl -s -o /dev/null -w "%{http_code}" http://localhost:3000 | grep -q "500" ...
DBG_Port ==
    /\ pc = "dbg_port"
    /\ \E out \in CurlOutputs, rc \in ExitCodes :
        \* curl fails (rc # 0) exactly when it reports no status or 000
        /\ (rc = 0) <=> (out \notin {{}, {"000"}})
        /\ cmds' = Append(cmds, Ran(DbgCurl, rc, out))
        /\ stdout' = Append(stdout, PortVerdict(out))
    /\ pc' = "dbg_fixes"
    /\ UNCHANGED exit
    /\ UNCHANGED panelVars

\* Lines 56-62: the closing echo lines; the script ends with the status of the last echo.
DBG_Fixes ==
    /\ pc = "dbg_fixes"
    /\ stdout' = Append(stdout, MsgFixes)
    /\ exit' = Some(0)
    /\ pc' = "done"
    /\ UNCHANGED cmds
    /\ UNCHANGED panelVars

NextDebug ==
    \/ DBG_CheckRunning
    \/ DBG_Details
    \/ DBG_Env
    \/ DBG_Logs
    \/ DBG_Database
    \/ DBG_Ping
    \/ DBG_Port
    \/ DBG_Fixes

(***************************************************************************)
(* The settings panel (General.svelte)                                     *)
(***************************************************************************)

ADV == "USE_ADVANCED_RETRIEVAL"
SubFlags == {"ENABLE_QUERY_EXPANSION", "ENABLE_DOCUMENT_RERANKING", "ENABLE_SEMANTIC_CHUNKING"}
Flags == {ADV} \cup SubFlags
ModeFields == {"CHAT_UPLOAD_PROCESSING_MODE", "KNOWLEDGE_BASE_PROCESSING_MODE"}
NumberFields == {"FILE_MAX_SIZE", "FILE_MAX_COUNT"}
Fields == Flags \cup ModeFields \cup NumberFields
SubOptions == SubFlags \cup ModeFields
ExportAll == "ExportAll"

\* The values the data model gives the two processing modes.
ProcessingModes == {"full_context", "chunked_vectorized", "hybrid"}

\* A select with a misspelt option value.
Options_Typo(f) == {"full_context", "chunked-vectorized", "hybrid"}

\* Lines 132-134 and 147-149: the <option value=...> elements of a select.
Options(f) == {"full_context", "chunked_vectorized", "hybrid"}

\* Line 11: export let RAGConfig = null
NullConfig == [null |-> TRUE]

\* Longest text typed into a number input.
MaxLen == 2
\* The digit keys the user presses.
Keys == {"5"}

DigitValue(c) ==
    CASE c = "0" -> 0 [] c = "1" -> 1 [] c = "2" -> 2 [] c = "3" -> 3 [] c = "4" -> 4
      [] c = "5" -> 5 [] c = "6" -> 6 [] c = "7" -> 7 [] c = "8" -> 8 [] c = "9" -> 9

DigitChar(d) ==
    CASE d = 0 -> "0" [] d = 1 -> "1" [] d = 2 -> "2" [] d = 3 -> "3" [] d = 4 -> "4"
      [] d = 5 -> "5" [] d = 6 -> "6" [] d = 7 -> "7" [] d = 8 -> "8" [] d = 9 -> "9"

RECURSIVE Decimal(_)
Decimal(s) ==
    IF s = "" THEN 0
    ELSE 10 * Decimal(SubSeq(s, 1, Len(s) - 1)) + DigitValue(SubSeq(s, Len(s), Len(s)))

\* bind:value on <input type="number">: the field gets '' as null, else +value.
to_number(s) == IF s = "" THEN NoValue ELSE Some(Decimal(s))

RECURSIVE NumberText(_)
NumberText(n) == IF n < 10 THEN DigitChar(n) ELSE NumberText(n \div 10) \o DigitChar(n % 10)

\* bind:value towards the DOM: input.value = value == null ? '' : value
set_input_value(v) == IF v = NoValue THEN "" ELSE NumberText(v[1])

\* Line 17: {#if $config?.features?.enable_admin_export ?? true}
ExportShown(c) == IF c = "undefined" THEN TRUE ELSE c = "true"

\* The sub-options block without its {#if}.
AdvancedShown_Always(cfg) == TRUE

\* Line 79: {#if RAGConfig.USE_ADVANCED_RETRIEVAL}
AdvancedShown(cfg) == cfg[ADV] = TRUE

\* Lines 16-191: the controls the template puts in the DOM for a state.
Render(cfg, c) ==
    (IF ExportShown(c) THEN {ExportAll} ELSE {})
    \cup (IF cfg # NullConfig
          THEN {ADV} \cup NumberFields \cup (IF AdvancedShown(cfg) THEN SubOptions ELSE {})
          ELSE {})

Event(type, ctl) == [type |-> type, ctl |-> ctl]
NoEvent == Event("none", "none")
Call(fn, msg, seen) == [call |-> fn, msg |-> msg, seen |-> seen]

\* Line 29: toast.info($i18n.t('Export functionality not yet implemented'))
ExportToast == "Export functionality not yet implemented"

\* on:change={() => { updateHandler(); }}: the callback runs on the RAGConfig it finds.
UpdateHandlerCall(cfg) == Call("updateHandler", "", cfg)

\* The on:click with its commented-out body (lines 31-47) in force.
ExportClickCalls_Implemented ==
    <<Call("exportAllKnowledge", "", NullConfig),
      Call("download", "knowledge-export.tar.gz", NullConfig),
      Call("toast.success", "Knowledge exported successfully", NullConfig)>>

\* Lines 27-49: the Export All button's on:click.
ExportClickCalls == <<Call("toast.info", ExportToast, NullConfig)>>

\* Lines 24-53: a click on Export All.
ClickExport ==
    /\ pc = "idle"
    /\ ExportAll \in rendered
    /\ lastEvent' = Event("click", ExportAll)
    /\ effects' = ExportClickCalls
    /\ UNCHANGED <<RAGConfig, config, text, focus, textAtFocus, rendered>>
    /\ UNCHANGED shellVars

\* A binding that also clears the sub-option flags when the main flag goes off.
BindChecked_Reset(cfg, f) ==
    IF f = ADV /\ cfg[ADV] = TRUE
    THEN [g \in Fields |-> IF g \in Flags THEN FALSE ELSE cfg[g]]
    ELSE [cfg EXCEPT ![f] = ~cfg[f]]

\* bind:checked: RAGConfig[f] = this.checked, the box's state after the click.
BindChecked(cfg, f) == [cfg EXCEPT ![f] = ~cfg[f]]

\* The checkbox with on:change written before bind:checked: updateHandler
\* runs before the binding has written the field.
ChangeCheckbox_HandlerFirst(f) ==
    /\ pc = "idle"
    /\ f \in rendered
    /\ effects' = <<UpdateHandlerCall(RAGConfig)>>
    /\ RAGConfig' = BindChecked(RAGConfig, f)
    /\ rendered' = Render(RAGConfig', config)
    /\ lastEvent' = Event("change", f)
    /\ UNCHANGED <<config, text, focus, textAtFocus>>
    /\ UNCHANGED shellVars

\* Lines 67-74, 83-90, 97-104, 111-118: a checkbox is clicked; its change event runs
\* the bind:checked listener, then the on:change listener; then the DOM is updated.
ChangeCheckbox(f) ==
    /\ pc = "idle"
    /\ f \in rendered
    /\ LET bound == BindChecked(RAGConfig, f) IN
        /\ RAGConfig' = bound
        /\ effects' = <<UpdateHandlerCall(bound)>>
        /\ rendered' = Render(bound, config)
    /\ lastEvent' = Event("change", f)
    /\ UNCHANGED <<config, text, focus, textAtFocus>>
    /\ UNCHANGED shellVars

ToggleCheckbox == \E f \in Flags : ChangeCheckbox(f)

\* bind:value on a select: RAGConfig[f] = the selected option's value.
BindSelect(cfg, f, v) == [cfg EXCEPT ![f] = v]

\* Lines 125-135 and 140-150: another option of a select is chosen.
ChangeSelect(f, v) ==
    /\ pc = "idle"
    /\ f \in rendered
    /\ v # RAGConfig[f]
    /\ LET bound == BindSelect(RAGConfig, f, v) IN
        /\ RAGConfig' = bound
        /\ effects' = <<UpdateHandlerCall(bound)>>
        /\ rendered' = Render(bound, config)
    /\ lastEvent' = Event("change", f)
    /\ UNCHANGED <<config, text, focus, textAtFocus>>
    /\ UNCHANGED shellVars

SelectMode == \E f \in ModeFields : \E v \in Options(f) : ChangeSelect(f, v)

\* Lines 165-186: a number input takes the focus.
FocusInput ==
    /\ pc = "idle"
    /\ focus = "none"
    /\ \E f \in NumberFields :
        /\ f \in rendered
        /\ focus' = f
        /\ textAtFocus' = text[f]
        /\ lastEvent' = Event("focus", f)
    /\ effects' = <<>>
    /\ UNCHANGED <<RAGConfig, config, text, rendered>>
    /\ UNCHANGED shellVars

\* bind:value on an input: the input event's listener writes the field.
BindInput(cfg, f, s) == [cfg EXCEPT ![f] = to_number(s)]

\* Lines 165-186: the focused input's text is edited; its input event runs the
\* bind:value listener only (on:change listens to the change event).
InputEvent(f, s) ==
    /\ text' = [text EXCEPT ![f] = s]
    /\ RAGConfig' = BindInput(RAGConfig, f, s)
    /\ rendered' = Render(RAGConfig', config)
    /\ lastEvent' = Event("input", f)
    /\ effects' = <<>>
    /\ UNCHANGED <<config, focus, textAtFocus>>
    /\ UNCHANGED shellVars

TypeKey ==
    /\ pc = "idle"
    /\ focus # "none"
    /\ Len(text[focus]) < MaxLen
    /\ \E k \in Keys : InputEvent(focus, text[focus] \o k)

Backspace ==
    /\ pc = "idle"
    /\ focus # "none"
    /\ text[focus] # ""
    /\ InputEvent(focus, SubSeq(text[focus], 1, Len(text[focus]) - 1))

\* Lines 170-172 and 183-185: the focused input loses the focus; when its value
\* differs from the one it had, its change event runs the on:change listener.
BlurInput ==
    /\ pc = "idle"
    /\ focus # "none"
    /\ IF text[focus] # textAtFocus
       THEN /\ lastEvent' = Event("change", focus)
            /\ effects' = <<UpdateHandlerCall(RAGConfig)>>
       ELSE /\ lastEvent' = Event("blur", focus)
            /\ effects' = <<>>
    /\ focus' = "none"
    /\ textAtFocus' = ""
    /\ UNCHANGED <<RAGConfig, config, text, rendered>>
    /\ UNCHANGED shellVars

NextPanel ==
    \/ ClickExport
    \/ ToggleCheckbox
    \/ SelectMode
    \/ FocusInput
    \/ TypeKey
    \/ Backspace
    \/ BlurInput

(***************************************************************************)
(* Initial states and specifications                                       *)
(***************************************************************************)

ShellIdle == pc = "idle" /\ stdout = <<>> /\ cmds = <<>> /\ exit = NoValue

\* The limits the backend may hand to the panel.
InitialLimits == {NoValue, Some(5)}

\* The RAGConfig objects the backend may hand to the panel.
Configs ==
    {[f \in Fields |-> IF f \in Flags THEN fl[f] ELSE IF f \in ModeFields THEN md[f] ELSE nm[f]] :
        fl \in [Flags -> BOOLEAN],
        md \in [ModeFields -> ProcessingModes],
        nm \in [NumberFields -> InitialLimits]}

PanelIdle ==
    /\ RAGConfig = NullConfig
    /\ config = "undefined"
    /\ text = [f \in NumberFields |-> ""]
    /\ focus = "none"
    /\ textAtFocus = ""
    /\ rendered = {}
    /\ lastEvent = NoEvent
    /\ effects = <<>>

\* The panel is mounted with the props and the store value it is given.
InitPanel ==
    /\ ShellIdle
    /\ RAGConfig \in Configs \cup {NullConfig}
    /\ config \in {"true", "false", "undefined"}
    /\ text = [f \in NumberFields |->
                 IF RAGConfig = NullConfig THEN "" ELSE set_input_value(RAGConfig[f])]
    /\ focus = "none"
    /\ textAtFocus = ""
    /\ rendered = Render(RAGConfig, config)
    /\ lastEvent = NoEvent
    /\ effects = <<>>

InitRun == pc = "rb_env" /\ stdout = <<>> /\ cmds = <<>> /\ exit = NoValue /\ PanelIdle

InitDebug == pc = "dbg_ps" /\ stdout = <<>> /\ cmds = <<>> /\ exit = NoValue /\ PanelIdle

SpecPanel == InitPanel /\ [][NextPanel]_vars
SpecRun == InitRun /\ [][NextRun]_vars
SpecDebug == InitDebug /\ [][NextDebug]_vars

Init == InitPanel \/ InitRun \/ InitDebug
Next == NextPanel \/ NextRun \/ NextDebug
Spec == Init /\ [][Next]_vars

(***************************************************************************)
(* Properties of run-bedrock.sh (checked under SpecRun)                    *)
(***************************************************************************)

\* The entries of the command log made by command c.
Runs(c) == {i \in 1..Len(cmds) : cmds[i].cmd = c}

EnvFileAbsent == \E i \in Runs(TestEnvFile) : cmds[i].rc # 0
DockerDown == \E i \in Runs(DockerInfo) : cmds[i].rc # 0
GatewayImageAbsent == \E i \in Runs(DockerImages1) : \A l \in cmds[i].out : ~Contains(l, "bedrock-gateway")
WebuiImageAbsent == \E i \in Runs(DockerImages2) : \A l \in cmds[i].out : ~Contains(l, "open-webui")

ExitedNonZero == pc = "done" /\ exit # NoValue /\ exit[1] # 0
NoCompose == ~Invoked(ComposeDown) /\ ~Invoked(ComposeUp)

\* C1: whenever a prerequisite check finds its prerequisite absent (no
\* .env.bedrock, docker info failing, no image line containing
\* "bedrock-gateway", no image line containing "open-webui"), the script has
\* printed that check's error message and exited with a non-zero status, and
\* no docker-compose command (down or up) has been invoked in the run.
C1_PrerequisiteAbsentExits ==
    /\ EnvFileAbsent => (Printed(ErrEnvFile) /\ ExitedNonZero /\ NoCompose)
    /\ DockerDown => (Printed(ErrDocker) /\ ExitedNonZero /\ NoCompose)
    /\ GatewayImageAbsent => (Printed(ErrGatewayImage) /\ ExitedNonZero /\ NoCompose)
    /\ WebuiImageAbsent => (Printed(ErrWebuiImage) /\ ExitedNonZero /\ NoCompose)

\* The run in which the first three checks pass and the open-webui image is missing.
C1_Witness ==
    /\ WebuiImageAbsent
    /\ ~EnvFileAbsent /\ ~DockerDown /\ ~GatewayImageAbsent
    /\ exit = Some(1)

\* The order in which run-bedrock.sh invokes its commands.
RunOrder ==
    <<TestEnvFile, DockerInfo, DockerImages1, DockerImages2,
      ComposeDown, ComposeUp, Sleep5, DockerPs1, DockerPs2>>

\* C2: the commands run in the fixed order env file, docker info, the two
\* image checks, compose down, compose up; down is invoked only after all
\* four checks passed, up only after down, and a failing down does not stop
\* the script: the script goes on to invoke up.
C2_FixedOrder ==
    /\ Len(cmds) <= Len(RunOrder)
    /\ \A i \in 1..Len(cmds) : cmds[i].cmd = RunOrder[i]
    /\ Invoked(ComposeDown) =>
          /\ \A i \in 1..4 : cmds[i].rc = 0
          /\ ~EnvFileAbsent /\ ~DockerDown /\ ~GatewayImageAbsent /\ ~WebuiImageAbsent
    /\ Invoked(ComposeUp) => (Invoked(ComposeDown) /\ IndexOf(ComposeDown) < IndexOf(ComposeUp))
    /\ (Invoked(ComposeDown) /\ ~Invoked(ComposeUp)) => (pc = "rb_up" /\ exit = NoValue)

\* A run in which compose down failed and compose up was invoked all the same.
C2_Witness ==
    /\ \E i \in Runs(ComposeDown) : cmds[i].rc # 0
    /\ Invoked(ComposeUp)

PsRuns == Runs(DockerPs1) \cup Runs(DockerPs2)
Verified == pc = "done" /\ Invoked(Sleep5)

\* C8 as stated: after the wait docker ps is run exactly once, and the
\* script reports success with status 0 exactly when both names appear in
\* that one listing, and otherwise reports failure with status 1.
C8_Original ==
    Verified =>
        /\ Cardinality(PsRuns) = 1
        /\ \A i \in PsRuns :
              IF GrepQ(cmds[i].out, "bedrock-gateway") /\ GrepQ(cmds[i].out, "open-webui")
              THEN exit = Some(0) /\ Printed(MsgStarted)
              ELSE exit = Some(1) /\ Printed(ErrFailed)

\* C8 (amended): compose up is invoked at most once and its status is not
\* looked at; after the wait the script makes one verification pass with no
\* retry, running docker ps once for "bedrock-gateway" and, only when that
\* matched, once more for "open-webui"; it reports success with status 0
\* exactly when the first listing contains "bedrock-gateway" and the second
\* contains "open-webui", otherwise it reports failure with status 1; no
\* command follows the verification (nothing is stopped or cleaned up).
C8_SinglePassVerification ==
    /\ Cardinality(Runs(ComposeUp)) <= 1
    /\ Cardinality(Runs(ComposeDown)) <= 1
    /\ (Invoked(ComposeUp) /\ ~Invoked(Sleep5)) => (pc = "rb_sleep" /\ exit = NoValue)
    /\ Cardinality(Runs(DockerPs1)) <= 1
    /\ Cardinality(Runs(DockerPs2)) <= 1
    /\ Invoked(DockerPs2) => \E i \in Runs(DockerPs1) : GrepQ(cmds[i].out, "bedrock-gateway")
    /\ Verified =>
          /\ cmds[Len(cmds)].cmd \in {DockerPs1, DockerPs2}
          /\ IF /\ \E i \in Runs(DockerPs1) : GrepQ(cmds[i].out, "bedrock-gateway")
                /\ \E i \in Runs(DockerPs2) : GrepQ(cmds[i].out, "open-webui")
             THEN exit = Some(0) /\ Printed(MsgStarted) /\ ~Printed(ErrFailed)
             ELSE exit = Some(1) /\ Printed(ErrFailed) /\ ~Printed(MsgStarted)

\* A run that reports success although no listing showed both containers.
C8_Witness ==
    /\ exit = Some(0)
    /\ Printed(MsgStarted)
    /\ \E i \in Runs(ComposeUp) : cmds[i].rc # 0
    /\ \A i \in PsRuns : ~(GrepQ(cmds[i].out, "bedrock-gateway") /\ GrepQ(cmds[i].out, "open-webui"))

(***************************************************************************)
(* Properties of debug-openwebui.sh (checked under SpecDebug)              *)
(***************************************************************************)

\* The commands that look into the container.
Diagnostics == {DbgPsFilter, DbgExecEnv, DbgLogs, DbgExecLs, DbgExecPing, DbgCurl}
\* The commands that only inspect: list, print the environment, print the
\* logs, list a directory, ping, fetch a page.
Inspecting == {DbgPs} \cup Diagnostics

ContainerSeen == Len(cmds) >= 1 /\ \E l \in cmds[1].out : Contains(l, "open-webui")

\* C7: the diagnostic commands run only when the docker ps listing contains
\* "open-webui"; otherwise the start instructions are printed and no further
\* command runs; every command the script runs only inspects; the script
\* exits only at its end, after the common-fixes list, with status 0,
\* whatever the diagnostic commands returned, and it can always take its
\* next step until then.
C7_InspectOnly ==
    /\ \A i \in 1..Len(cmds) : cmds[i].cmd \in Inspecting
    /\ (\E i \in 1..Len(cmds) : cmds[i].cmd \in Diagnostics) => ContainerSeen
    /\ (Len(cmds) >= 1 /\ ~ContainerSeen) =>
          (Len(cmds) = 1 /\ Printed(MsgNotRunning) /\ Printed(MsgToStart))
    /\ exit # NoValue => (pc = "done" /\ exit = Some(0) /\ stdout[Len(stdout)] = MsgFixes)
    /\ pc # "done" => (exit = NoValue /\ ENABLED NextDebug)

\* A finished run in which diagnostic commands failed.
C7_Witness ==
    /\ pc = "done"
    /\ exit = Some(0)
    /\ \E i \in Runs(DbgLogs) : cmds[i].rc # 0
    /\ \E i \in Runs(DbgExecEnv) : cmds[i].rc # 0

\* C10: the port check prints "Returns 500" exactly when the status code
\* curl reported is 500, and "OK" in every other case: another error code,
\* 000 (no connection), or no output at all.
C10_PortCheck ==
    \A i \in Runs(DbgCurl) :
        /\ Printed(MsgPort500) <=> (cmds[i].out = {"500"})
        /\ Printed(MsgPortOK) <=> (cmds[i].out # {"500"})
        /\ (cmds[i].out \in {{"000"}, {"502"}, {"404"}, {}}) => Printed(MsgPortOK)

\* curl could not connect (000) and the script printed OK.
C10_Witness ==
    /\ \E i \in Runs(DbgCurl) : cmds[i].out = {"000"} /\ cmds[i].rc # 0
    /\ Printed(MsgPortOK)

(***************************************************************************)
(* Properties of the settings panel (checked under SpecPanel)              *)
(***************************************************************************)

Loaded == RAGConfig # NullConfig
AdvancedOn == Loaded /\ RAGConfig[ADV] = TRUE
Changed(f) == RAGConfig'[f] # RAGConfig[f]

\* C3: in every state the five sub-options are in the DOM exactly when
\* RAGConfig is non-null and USE_ADVANCED_RETRIEVAL is true (all five or
\* none), and a change event of a sub-option only occurs while the flag is
\* true.
C3_SubOptionsShownIffFlag ==
    /\ (SubOptions \subseteq rendered) <=> AdvancedOn
    /\ (SubOptions \cap rendered = {}) <=> ~AdvancedOn
    /\ lastEvent.ctl \in SubOptions => AdvancedOn

\* The flag has just been switched off and the sub-options are gone.
C3_Witness ==
    /\ lastEvent = Event("change", ADV)
    /\ Loaded
    /\ RAGConfig[ADV] = FALSE
    /\ SubOptions \cap rendered = {}
    /\ RAGConfig["ENABLE_QUERY_EXPANSION"] = TRUE

\* C4: a click on Export All makes one call, toast.info with 'Export
\* functionality not yet implemented': no export, no download, no
\* updateHandler; RAGConfig and the rest of the panel stay as they were.
C4_ExportOnlyToasts ==
    [][lastEvent' = Event("click", ExportAll) =>
          /\ effects' = <<Call("toast.info", ExportToast, NullConfig)>>
          /\ \A i \in 1..Len(effects') : effects'[i].call \notin {"updateHandler", "exportAllKnowledge", "download"}
          /\ UNCHANGED <<RAGConfig, config, text, focus, textAtFocus, rendered>>]_vars

\* Export All was clicked while a number input held an uncommitted edit.
C4_Witness ==
    /\ lastEvent = Event("click", ExportAll)
    /\ Loaded
    /\ focus = "FILE_MAX_SIZE"
    /\ text[focus] # textAtFocus
    /\ Len(effects) = 1

\* C5 as stated: every change the panel makes to a RAGConfig field comes
\* with exactly one updateHandler call, which finds the new value in place.
C5_Original ==
    [][RAGConfig' # RAGConfig => effects' = <<UpdateHandlerCall(RAGConfig')>>]_vars

\* C5 (amended): a change event of a checkbox or a select writes the bound
\* field and then invokes updateHandler exactly once, which finds the new
\* value in place; a number input writes its field on every input event
\* without invoking updateHandler, and invokes updateHandler exactly once,
\* on the value typed, when the edit is committed; nothing else writes
\* RAGConfig.
C5_UpdateOnChangeEvent ==
    [][/\ lastEvent'.type = "change" =>
            /\ effects' = <<UpdateHandlerCall(RAGConfig')>>
            /\ lastEvent'.ctl \in Flags \cup ModeFields => Changed(lastEvent'.ctl)
            /\ lastEvent'.ctl \in NumberFields =>
                  /\ RAGConfig'[lastEvent'.ctl] = to_number(text'[lastEvent'.ctl])
                  /\ text'[lastEvent'.ctl] # textAtFocus
       /\ (RAGConfig' # RAGConfig /\ lastEvent'.type # "change") =>
            /\ lastEvent'.type = "input"
            /\ lastEvent'.ctl \in NumberFields
            /\ focus' = lastEvent'.ctl
            /\ effects' = <<>>
       /\ lastEvent'.type # "change" =>
            \A i \in 1..Len(effects') : effects'[i].call # "updateHandler"]_vars

\* "55" was typed into Max File Size and committed: updateHandler saw 55.
C5_Witness ==
    /\ lastEvent = Event("change", "FILE_MAX_SIZE")
    /\ text["FILE_MAX_SIZE"] = "55"
    /\ effects = <<UpdateHandlerCall(RAGConfig)>>
    /\ RAGConfig["FILE_MAX_SIZE"] = Some(55)

\* C6: both processing modes are always one of full_context,
\* chunked_vectorized, hybrid, whatever the user does; so is every value a
\* select's change event has written.
C6_ModesInEnum ==
    Loaded =>
        /\ \A f \in ModeFields : RAGConfig[f] \in ProcessingModes
        /\ \A i \in 1..Len(effects) :
              effects[i].call = "updateHandler" =>
                  \A f \in ModeFields : effects[i].seen[f] \in ProcessingModes

\* The chat upload mode has just been set to hybrid by its select.
C6_Witness ==
    /\ lastEvent = Event("change", "CHAT_UPLOAD_PROCESSING_MODE")
    /\ RAGConfig["CHAT_UPLOAD_PROCESSING_MODE"] = "hybrid"
    /\ RAGConfig["KNOWLEDGE_BASE_PROCESSING_MODE"] = "chunked_vectorized"

\* C9: an event changes no RAGConfig field but the one bound to its
\* control; so toggling Enable Advanced Retrieval leaves the three
\* sub-option flags, both processing modes and both file limits as they
\* were, and showing the sub-options again shows the same settings.
C9_OnlyBoundFieldChanges ==
    [][Loaded =>
          /\ \A f \in Fields : Changed(f) => f = lastEvent'.ctl
          /\ lastEvent' = Event("change", ADV) =>
                (Changed(ADV) /\ \A f \in Fields \ {ADV} : ~Changed(f))]_vars

\* The flag has just been switched off while sub-options held settings.
C9_Witness ==
    /\ lastEvent = Event("change", ADV)
    /\ Loaded
    /\ RAGConfig[ADV] = FALSE
    /\ \A f \in SubFlags : RAGConfig[f] = TRUE
    /\ \A f \in ModeFields : RAGConfig[f] = "hybrid"
    /\ RAGConfig["FILE_MAX_COUNT"] = Some(55)

=============================================================================
